---------------------------- MODULE Spec2Model ----------------------------
(***************************************************************************)
(* Force subsystems of a multibody system (SimbodyForcesRep.h): the        *)
(* two-point spring, the uniform gravity field and the empty force         *)
(* subsystem, realized stage by stage against one State.                   *)
(*                                                                         *)
(* Real numbers are exact extended rationals <<n, d>> (d > 0 finite,       *)
(* <<1,0>> = +Inf, <<-1,0>> = -Inf, <<0,0>> = NaN), so that division by    *)
(* zero and Inf*0 behave as IEEE arithmetic does; rounding is not          *)
(* modelled.                                                               *)
(***************************************************************************)
EXTENDS Integers, Sequences, FiniteSets, TLC

\* ------------------------------------------------------------------ Real

Abs(i) ==
    IF i < 0 THEN -i ELSE i

Sign(i) ==
    IF i < 0 THEN -1 ELSE IF i > 0 THEN 1 ELSE 0

RECURSIVE GCD(_, _)
GCD(a, b) ==
    IF b = 0 THEN a ELSE GCD(b, a % b)

\* The canonical form of the fraction n/d.
Frac(n, d) ==
    IF d = 0 THEN <<Sign(n), 0>>
    ELSE LET g == GCD(Abs(n), Abs(d))
             s == Sign(d)
         IN  <<(s * n) \div g, (s * d) \div g>>

Real(i) ==
    <<i, 1>>

NaN ==
    <<0, 0>>

IsNaN(a) ==
    a = NaN

IsFinite(a) ==
    a[2] # 0

\* a + b; Inf + Inf = Inf, Inf - Inf = NaN.
RAdd(a, b) ==
    IF a[2] = 1 /\ b[2] = 1 THEN <<a[1] + b[1], 1>>
    ELSE IF a[2] = 0 /\ b[2] = 0
    THEN (IF a = b THEN a ELSE NaN)
    ELSE Frac(a[1] * b[2] + b[1] * a[2], a[2] * b[2])

RNeg(a) ==
    <<-a[1], a[2]>>

RSub(a, b) ==
    RAdd(a, RNeg(b))

\* a * b; Inf * 0 = NaN.
RMul(a, b) ==
    IF a[2] = 1 /\ b[2] = 1 THEN <<a[1] * b[1], 1>>
    ELSE Frac(a[1] * b[1], a[2] * b[2])

\* a / b; x/0 = +-Inf for x # 0, 0/0 = NaN, x/Inf = 0, Inf/Inf = NaN.
RDiv(a, b) ==
    IF b[2] = 0 THEN Frac(a[1] * b[2], a[2] * b[1])
    ELSE IF b[1] = 0 THEN Frac(a[1], 0)
    ELSE Frac(a[1] * b[2] * Sign(b[1]), a[2] * Abs(b[1]))

\* The check for a positive value in place of one for a non-negative value.
RGeZero_Positive(a) ==
    a[2] # 0 /\ a[1] > 0

\* a >= 0 as the comparison evaluates: false for NaN.
RGeZero(a) ==
    ~IsNaN(a) /\ a[1] >= 0

ISqrt(n) ==
    CHOOSE r \in 0..n : r * r = n

\* The square root of a finite non-negative real whose root is rational.
RSqrt(a) ==
    IF ~IsFinite(a) \/ a[1] < 0 THEN NaN ELSE <<ISqrt(a[1]), ISqrt(a[2])>>

\* ------------------------------------------------------------------ Vec3

Vec3(x, y, z) ==
    <<Real(x), Real(y), Real(z)>>

VAdd(u, v) ==
    [i \in 1..3 |-> RAdd(u[i], v[i])]

VSub(u, v) ==
    [i \in 1..3 |-> RSub(u[i], v[i])]

VNeg(u) ==
    [i \in 1..3 |-> RNeg(u[i])]

\* r * v, scalar times vector.
VScale(r, v) ==
    [i \in 1..3 |-> RMul(r, v[i])]

\* v / r, vector divided by scalar.
VDivide(v, r) ==
    [i \in 1..3 |-> RDiv(v[i], r)]

\* u[1]*v[1] + ... + u[n]*v[n], summed left to right.
RECURSIVE VDotTo(_, _, _)
VDotTo(u, v, n) ==
    IF n = 1 THEN RMul(u[1], v[1])
    ELSE RAdd(VDotTo(u, v, n - 1), RMul(u[n], v[n]))

\* ~u * v, the dot product.
VDot(u, v) ==
    VDotTo(u, v, 3)

\* u % v, the cross product: component i is u[j]*v[k] - u[k]*v[j] for
\* (i, j, k) a cyclic shift of (1, 2, 3).
VCross(u, v) ==
    [i \in 1..3 |-> RSub(RMul(u[(i % 3) + 1], v[((i + 1) % 3) + 1]),
                         RMul(u[((i + 1) % 3) + 1], v[(i % 3) + 1]))]

VNorm(v) ==
    RSqrt(VDot(v, v))

\* R * v for a rotation matrix given by its rows.
MatVec(R, v) ==
    [i \in 1..3 |-> VDot(R[i], v)]

ZeroVec3 ==
    Vec3(0, 0, 0)

NaNVec3 ==
    <<NaN, NaN, NaN>>

\* SpatialVec(moment, force).
SpatialVec(m, f) ==
    [moment |-> m, force |-> f]

SAdd(a, b) ==
    SpatialVec(VAdd(a.moment, b.moment), VAdd(a.force, b.force))

SSub(a, b) ==
    SpatialVec(VSub(a.moment, b.moment), VSub(a.force, b.force))

ZeroSpatialVec ==
    SpatialVec(ZeroVec3, ZeroVec3)


\* ----------------------------------------------------------------- Stage

Allocated ==
    0

Built ==
    1

Modeled ==
    2

Parametrized ==
    3

Timed ==
    4

Configured ==
    5

Moving ==
    6

Dynamics ==
    7

Reaction ==
    8

\* --------------------------------------------------------- model bounds

\* Times one subsystem may run realizeConstruction on the same State.
MaxConstructions ==
    2

\* realizeDynamics calls made on a subsystem directly (outside the system's
\* own Dynamics pass) before the accumulators are zeroed again.
MaxPass ==
    1

\* ------------------------------------------------- the multibody system

\* Subsystem indices of the three force subsystems (getMySubsystemIndex()).
Elements ==
    {"spring", "gravity", "empty"}

Identity ==
    <<Vec3(1, 0, 0), Vec3(0, 1, 0), Vec3(0, 0, 1)>>

\* A quarter turn about the z axis: x -> y, y -> -x.
RotZ90 ==
    <<Vec3(0, -1, 0), Vec3(1, 0, 0), Vec3(0, 0, 1)>>

Body(m, com, R, T) ==
    [mass |-> Real(m), com_B |-> com, R |-> R, T |-> T]

\* The kinematic snapshot the matter subsystems answer from: per matter
\* subsystem the bodies (mass, centre of mass, configuration X_GB = (R, T)),
\* the particle masses and the generalized speeds u.
Matter ==
    [msub \in 0..1 |->
        IF msub = 0
        THEN [bodies |-> [b \in 0..2 |->
                            CASE b = 0 -> Body(0, ZeroVec3, Identity, ZeroVec3)
                              [] b = 1 -> Body(2, Vec3(0, 1, 0), Identity, Vec3(2, 0, 0))
                              [] OTHER -> Body(1, Vec3(1, 0, 0), RotZ90, Vec3(0, 5, 0))],
              particleMasses |-> [i \in 0..0 |-> Real(3)],
              U |-> [i \in 0..1 |-> IF i = 0 THEN Real(1) ELSE Real(-2)]]
        ELSE [bodies |-> [b \in 0..0 |-> Body(2, ZeroVec3, Identity, Vec3(0, 5, 0))],
              particleMasses |-> [i \in 0..0 |-> Real(1)],
              U |-> [i \in 0..0 |-> Real(4)]]]

getNMatterSubsystems ==
    Cardinality(DOMAIN Matter)

getNBodies(msub) ==
    Cardinality(DOMAIN Matter[msub].bodies)

getNParticles(msub) ==
    Cardinality(DOMAIN Matter[msub].particleMasses)

getNMobilities(msub) ==
    Cardinality(DOMAIN Matter[msub].U)

\* The force accumulators the MultibodySystem owns, as they are when zeroed.
ZeroForces ==
    [rigidBodyForces |-> [msub \in DOMAIN Matter |->
                            [b \in DOMAIN Matter[msub].bodies |-> ZeroSpatialVec]],
     particleForces  |-> [msub \in DOMAIN Matter |->
                            [i \in DOMAIN Matter[msub].particleMasses |-> ZeroVec3]],
     mobilityForces  |-> [msub \in DOMAIN Matter |->
                            [i \in DOMAIN Matter[msub].U |-> Real(0)]],
     pe |-> Real(0)]

\* ----------------------------------------------------------------- State

\* State(): nothing allocated, stage Allocated.
NewState ==
    [stage |-> Allocated,
     dvars |-> [e \in Elements |-> <<>>],
     cache |-> [e \in Elements |-> <<>>]]

\* s.allocateDiscreteVariable(subsys, g, v); the index returned is
\* Len(s.dvars[subsys]) as it was before the call.
allocateDiscreteVariable(s, subsys, g, v) ==
    [s EXCEPT !.dvars[subsys] = Append(@, [stage |-> g, value |-> v])]

\* s.allocateCacheEntry(subsys, g, v).  An entry that is not valid holds no
\* value the program may read: it holds the value it was allocated with.
allocateCacheEntry(s, subsys, g, v) ==
    [s EXCEPT !.cache[subsys] = Append(@, [stage |-> g, value |-> v, unset |-> v])]

getDiscreteVariable(s, subsys, index) ==
    s.dvars[subsys][index + 1].value

\* The realized stage falls below g: the cache entries of stage g and above
\* are invalidated.
invalidateStage(s, g) ==
    IF s.stage < g THEN s
    ELSE [s EXCEPT !.stage = g - 1,
                   !.cache = [e \in DOMAIN s.cache |-> [i \in DOMAIN s.cache[e] |->
                                IF s.cache[e][i].stage >= g
                                THEN [s.cache[e][i] EXCEPT !.value = s.cache[e][i].unset]
                                ELSE s.cache[e][i]]]]

\* Write access to a variable: every cache entry tagged at or above the
\* variable's stage becomes invalid.
updDiscreteVariable(s, subsys, index, v) ==
    invalidateStage([s EXCEPT !.dvars[subsys][index + 1].value = v],
                    s.dvars[subsys][index + 1].stage)

\* A cache entry may be read once the realized stage has reached its stage.
CacheEntryValid(s, subsys, index) ==
    s.stage >= s.cache[subsys][index + 1].stage

getCacheEntry(s, subsys, index) ==
    s.cache[subsys][index + 1].value

updCacheEntry(s, subsys, index, v) ==
    [s EXCEPT !.cache[subsys][index + 1].value = v]

\* Read access to a cache entry from outside the hooks: the stage error,
\* and no value, unless the realized stage has reached the entry's stage.
ReadCacheEntry(s, subsys, index) ==
    IF CacheEntryValid(s, subsys, index)
    THEN [outcome |-> "ok", value |-> getCacheEntry(s, subsys, index)]
    ELSE [outcome |-> "StageTooLow", value |-> <<>>]

\* The field f of what was read, when something was.
Field(r, f) ==
    IF r.outcome = "ok" THEN [r EXCEPT !.value = @[f]] ELSE r

\* May slots still be allocated?  Only before the State has been built.
CanAllocate(s) ==
    s.stage < Built

\* ------------------------------------------------- outcome of a call

\* A call on a subsystem takes the world w = [spring, gravity, s, f] (the two
\* subsystem objects, the State, the system's force accumulators) and returns
\* it as the call left it, with the outcome ("ok" or the exception thrown) and
\* whether the call queried the matter subsystems.
Return(w, kinRead) ==
    [spring |-> w.spring, gravity |-> w.gravity, s |-> w.s, f |-> w.f,
     outcome |-> "ok", kinRead |-> kinRead]

Throw(w, exception) ==
    [spring |-> w.spring, gravity |-> w.gravity, s |-> w.s, f |-> w.f,
     outcome |-> exception, kinRead |-> FALSE]

\* The check comparing against the stage before the one required.
StageTooLow_OffByOne(s, g) ==
    s.stage < g - 1

\* SimTK_STAGECHECK_GE_ALWAYS(getStage(s), g, loc) throws when this holds.
StageTooLow(s, g) ==
    s.stage < g

\* SubsystemRep's realize hooks, which a subsystem that defines none of its
\* own inherits: they do nothing.
BaseRealize(w) ==
    Return(w, FALSE)

\* -------------------------------------------- TwoPointSpringSubsystemRep

SpringParameters(k, x0) ==
    [stiffness |-> k, naturalLength |-> x0, gravity |-> ZeroVec3, damping |-> Real(0)]

\* Value<ConfigurationCache>(): nothing in it is set until realizeConfiguration.
NewConfigurationCache ==
    [station1_G |-> NaNVec3, station2_G |-> NaNVec3, v_G |-> NaNVec3,
     x |-> NaN, fscalar |-> NaN, pe |-> NaN]

NewDynamicsCache ==
    [f1_G |-> NaNVec3]

\* TwoPointSpringSubsystemRep(b1, s1, b2, s2, k, x0).
NewSpring(b1, s1, b2, s2, k, x0) ==
    [body1 |-> b1, body2 |-> b2, station1 |-> s1, station2 |-> s2,
     defaultParameters |-> SpringParameters(k, x0),
     parameterVarsIndex |-> -1, configurationCacheIndex |-> -1,
     dynamicsCacheIndex |-> -1, built |-> FALSE]

SpringGetParameters(w) ==
    getDiscreteVariable(w.s, "spring", w.spring.parameterVarsIndex)

\* updParameters writing the variable in place, no stage invalidated.
SpringUpdParameters_KeepsStage(w, p) ==
    [w EXCEPT !.s.dvars["spring"][w.spring.parameterVarsIndex + 1].value = p]

\* updParameters(s) with the value then stored through the reference.
SpringUpdParameters(w, p) ==
    [w EXCEPT !.s = updDiscreteVariable(@, "spring", w.spring.parameterVarsIndex, p)]

SpringGetConfigurationCache(w) ==
    getCacheEntry(w.s, "spring", w.spring.configurationCacheIndex)

SpringGetDynamicsCache(w) ==
    getCacheEntry(w.s, "spring", w.spring.dynamicsCacheIndex)

\* getPotentialEnergy reading the cache entry whatever the stage.
SpringGetPotentialEnergy_Unchecked(w) ==
    [outcome |-> "ok", value |-> SpringGetConfigurationCache(w).pe]

SpringGetPotentialEnergy(w) ==
    Field(ReadCacheEntry(w.s, "spring", w.spring.configurationCacheIndex), "pe")

SpringGetForceOnStation1(w) ==
    Field(ReadCacheEntry(w.s, "spring", w.spring.dynamicsCacheIndex), "f1_G")

SpringRealizeConstruction(w) ==
    IF ~CanAllocate(w.s) THEN Throw(w, "StageTooHigh")
    ELSE LET s1 == allocateDiscreteVariable(w.s, "spring", Parametrized,
                                            w.spring.defaultParameters)
             s2 == allocateCacheEntry(s1, "spring", Configured, NewConfigurationCache)
             s3 == allocateCacheEntry(s2, "spring", Dynamics, NewDynamicsCache)
         IN  Return([w EXCEPT !.s = s3,
                              !.spring.parameterVarsIndex = Len(w.s.dvars["spring"]),
                              !.spring.configurationCacheIndex = Len(w.s.cache["spring"]),
                              !.spring.dynamicsCacheIndex = Len(s2.cache["spring"]),
                              !.spring.built = TRUE],
                    FALSE)

SpringRealizeModeling(w) ==
    IF StageTooLow(w.s, Built) THEN Throw(w, "StageTooLow")
    ELSE Return(w, FALSE)

\* realizeParameters checking the natural length only.
SpringRealizeParameters_StiffnessUnchecked(w) ==
    IF StageTooLow(w.s, Modeled) THEN Throw(w, "StageTooLow")
    ELSE IF ~RGeZero(SpringGetParameters(w).naturalLength) THEN Throw(w, "ValueWasNegative")
    ELSE Return(w, FALSE)

SpringRealizeParameters(w) ==
    IF StageTooLow(w.s, Modeled) THEN Throw(w, "StageTooLow")
    ELSE IF ~RGeZero(SpringGetParameters(w).stiffness) THEN Throw(w, "ValueWasNegative")
    ELSE IF ~RGeZero(SpringGetParameters(w).naturalLength) THEN Throw(w, "ValueWasNegative")
    ELSE Return(w, FALSE)

\* realizeTime clearing the potential energy of the configuration cache.
SpringRealizeTime_ClearsEnergy(w) ==
    IF StageTooLow(w.s, Parametrized) THEN Throw(w, "StageTooLow")
    ELSE Return([w EXCEPT !.s = updCacheEntry(@, "spring", w.spring.configurationCacheIndex,
                                    [NewConfigurationCache EXCEPT !.pe = Real(0)])],
                FALSE)

SpringRealizeTime(w) ==
    IF StageTooLow(w.s, Parametrized) THEN Throw(w, "StageTooLow")
    ELSE Return(w, FALSE)

\* body1, station1, body2, station2 of the springs tried: stations 2 apart
\* along x, 5 apart obliquely on a rotated body, 2 apart on one body, and
\* coincident on two bodies.
SpringTopologies ==
    {<<0, ZeroVec3, 1, ZeroVec3>>,
     <<1, Vec3(1, 0, 0), 2, Vec3(-1, 0, 0)>>,
     <<1, Vec3(1, 0, 0), 1, Vec3(1, 2, 0)>>,
     <<0, Vec3(0, 4, 0), 2, Vec3(-1, 0, 0)>>}

\* What realizeConfiguration derives from the bodies' configurations alone,
\* for each spring tried: the stations re-expressed in G, v_G and x.
SpringGeometry ==
    [t \in SpringTopologies |->
        LET X_GB1      == Matter[0].bodies[t[1]]
            X_GB2      == Matter[0].bodies[t[3]]
            station1_G == MatVec(X_GB1.R, t[2])
            station2_G == MatVec(X_GB2.R, t[4])
            p1_G       == VAdd(X_GB1.T, station1_G)
            p2_G       == VAdd(X_GB2.T, station2_G)
            v_G        == VSub(p2_G, p1_G)
        IN  [station1_G |-> station1_G, station2_G |-> station2_G, v_G |-> v_G,
             x |-> VNorm(v_G)]]

\* The configuration cache of a spring of stiffness 1 whatever p.stiffness.
SpringConfiguration_UnitStiffness(self, p) ==
    LET geo     == SpringGeometry[<<self.body1, self.station1, self.body2, self.station2>>]
        stretch == RSub(geo.x, p.naturalLength)
        fscalar == stretch
    IN  [station1_G |-> geo.station1_G, station2_G |-> geo.station2_G, v_G |-> geo.v_G,
         x |-> geo.x, fscalar |-> fscalar,
         pe |-> RMul(RMul(<<1, 2>>, fscalar), stretch)]

\* The configuration cache realizeConfiguration fills in for parameters p.
SpringConfiguration(self, p) ==
    LET geo     == SpringGeometry[<<self.body1, self.station1, self.body2, self.station2>>]
        stretch == RSub(geo.x, p.naturalLength)
        fscalar == RMul(p.stiffness, stretch)
    IN  [station1_G |-> geo.station1_G, station2_G |-> geo.station2_G, v_G |-> geo.v_G,
         x |-> geo.x, fscalar |-> fscalar,
         pe |-> RMul(RMul(<<1, 2>>, fscalar), stretch)]

\* realizeConfiguration adding the potential energy to the accumulator itself.
SpringRealizeConfiguration_AddsPe(w) ==
    IF StageTooLow(w.s, Timed) THEN Throw(w, "StageTooLow")
    ELSE Return([w EXCEPT !.s = updCacheEntry(@, "spring", w.spring.configurationCacheIndex,
                                    SpringConfiguration(w.spring, SpringGetParameters(w))),
                          !.f.pe = RAdd(@, SpringConfiguration(w.spring,
                                                SpringGetParameters(w)).pe)],
                TRUE)

SpringRealizeConfiguration(w) ==
    IF StageTooLow(w.s, Timed) THEN Throw(w, "StageTooLow")
    ELSE Return([w EXCEPT !.s = updCacheEntry(@, "spring", w.spring.configurationCacheIndex,
                                    SpringConfiguration(w.spring, SpringGetParameters(w)))],
                TRUE)

\* realizeMotion with its stage check left out.
SpringRealizeMotion_Unchecked(w) ==
    Return(w, FALSE)

SpringRealizeMotion(w) ==
    IF StageTooLow(w.s, Configured) THEN Throw(w, "StageTooLow")
    ELSE Return(w, FALSE)

\* The force with a zero vector substituted when the stations coincide.
SpringForce_ZeroWhenCoincident(cc) ==
    IF cc.x = Real(0) THEN ZeroVec3
    ELSE VScale(RDiv(cc.fscalar, cc.x), cc.v_G)

\* The force with the division by the length x left out.
SpringForce_NotNormalized(cc) ==
    VScale(cc.fscalar, cc.v_G)

\* dc.f1_G = (cc.fscalar/cc.x) * cc.v_G.
SpringForce(cc) ==
    VScale(RDiv(cc.fscalar, cc.x), cc.v_G)

\* The force added to body2's slot as it is to body1's.
SpringBodyForces_BothAdded(self, cc, f1_G, rigidBodyForces) ==
    LET added == [rigidBodyForces EXCEPT ![self.body1] =
                      SAdd(@, SpatialVec(VCross(cc.station1_G, f1_G), f1_G))]
    IN  [added EXCEPT ![self.body2] =
                      SAdd(@, SpatialVec(VCross(cc.station2_G, f1_G), f1_G))]

\* rigidBodyForces[body1] += ..., then rigidBodyForces[body2] -= ...
SpringBodyForces(self, cc, f1_G, rigidBodyForces) ==
    LET added == [rigidBodyForces EXCEPT ![self.body1] =
                      SAdd(@, SpatialVec(VCross(cc.station1_G, f1_G), f1_G))]
    IN  [added EXCEPT ![self.body2] =
                      SSub(@, SpatialVec(VCross(cc.station2_G, f1_G), f1_G))]

\* The damping term added instead of subtracted.
SpringDamping_Added(damping, mobilityForces) ==
    [i \in DOMAIN mobilityForces |->
        RAdd(mobilityForces[i], RMul(damping, Matter[0].U[i]))]

\* mobilityForces -= damping * u, done only when damping != 0.
SpringDamping(damping, mobilityForces) ==
    IF damping # Real(0)
    THEN [i \in DOMAIN mobilityForces |->
            RSub(mobilityForces[i], RMul(damping, Matter[0].U[i]))]
    ELSE mobilityForces

SpringRealizeDynamics(w) ==
    IF StageTooLow(w.s, Moving) THEN Throw(w, "StageTooLow")
    ELSE LET cc   == SpringGetConfigurationCache(w)
             f1_G == SpringForce(cc)
             s1   == updCacheEntry(w.s, "spring", w.spring.dynamicsCacheIndex,
                                   [f1_G |-> f1_G])
         IN  Return([w EXCEPT
                       !.s = s1,
                       !.f.pe = RAdd(@, cc.pe),
                       !.f.rigidBodyForces[0] = SpringBodyForces(w.spring, cc, f1_G, @),
                       !.f.mobilityForces[0] = SpringDamping(SpringGetParameters(w).damping, @)],
                    TRUE)

SpringRealizeReaction(w) ==
    IF StageTooLow(w.s, Dynamics) THEN Throw(w, "StageTooLow")
    ELSE Return(w, FALSE)

\* -------------------------------------------- UniformGravitySubsystemRep

GravityParameters(g, z) ==
    [gravity |-> g, zeroHeight |-> z, enabled |-> TRUE]

NewParameterCache ==
    [gDirection |-> NaNVec3, gMagnitude |-> NaN]

\* UniformGravitySubsystemRep(g, z).
NewGravity(g, z) ==
    [defaultParameters |-> GravityParameters(g, z),
     parameterVarsIndex |-> -1, parameterCacheIndex |-> -1, built |-> FALSE]

GravityGetParameters(w) ==
    getDiscreteVariable(w.s, "gravity", w.gravity.parameterVarsIndex)

GravityUpdParameters(w, p) ==
    [w EXCEPT !.s = updDiscreteVariable(@, "gravity", w.gravity.parameterVarsIndex, p)]

GravityGetParameterCache(w) ==
    getCacheEntry(w.s, "gravity", w.gravity.parameterCacheIndex)

GravityGetGravityMagnitude(w) ==
    Field(ReadCacheEntry(w.s, "gravity", w.gravity.parameterCacheIndex), "gMagnitude")

GravityGetGravityDirection(w) ==
    Field(ReadCacheEntry(w.s, "gravity", w.gravity.parameterCacheIndex), "gDirection")

GravityRealizeConstruction(w) ==
    IF ~CanAllocate(w.s) THEN Throw(w, "StageTooHigh")
    ELSE LET s1 == allocateDiscreteVariable(w.s, "gravity", Parametrized,
                                            w.gravity.defaultParameters)
             s2 == allocateCacheEntry(s1, "gravity", Parametrized, NewParameterCache)
         IN  Return([w EXCEPT !.s = s2,
                              !.gravity.parameterVarsIndex = Len(w.s.dvars["gravity"]),
                              !.gravity.parameterCacheIndex = Len(w.s.cache["gravity"]),
                              !.gravity.built = TRUE],
                    FALSE)

\* The parameter cache with g divided by its length whatever the length.
GravityParameterCache_AlwaysDivides(g) ==
    LET gMagnitude == VNorm(g)
    IN  [gMagnitude |-> gMagnitude,
         gDirection |-> VDivide(g, gMagnitude)]

\* The parameter cache realizeParameters fills in for gravity vector g.
GravityParameterCache(g) ==
    LET gMagnitude == VNorm(g)
    IN  [gMagnitude |-> gMagnitude,
         gDirection |-> IF gMagnitude = Real(0) THEN Vec3(0, 0, 1)
                        ELSE VDivide(g, gMagnitude)]

GravityRealizeParameters(w) ==
    IF StageTooLow(w.s, Modeled) THEN Throw(w, "StageTooLow")
    ELSE Return([w EXCEPT !.s = updCacheEntry(@, "gravity", w.gravity.parameterCacheIndex,
                                    GravityParameterCache(GravityGetParameters(w).gravity))],
                FALSE)

GravityRealizeConfiguration(w) ==
    IF StageTooLow(w.s, Timed) THEN Throw(w, "StageTooLow")
    ELSE Return(w, FALSE)

\* com_B_G = X_GB.R()*com_B for body i of matter subsystem msub.
GravityComBG ==
    [msub \in DOMAIN Matter |-> [i \in DOMAIN Matter[msub].bodies |->
        MatVec(Matter[msub].bodies[i].R, Matter[msub].bodies[i].com_B)]]

\* com_G = X_GB.T() + com_B_G.
GravityComG ==
    [msub \in DOMAIN Matter |-> [i \in DOMAIN Matter[msub].bodies |->
        VAdd(Matter[msub].bodies[i].T, GravityComBG[msub][i])]]

\* particleForces[i] += g * m[i].
GravityParticleForces(g, msub, particleForces) ==
    [i \in DOMAIN particleForces |->
        VAdd(particleForces[i], VScale(Matter[msub].particleMasses[i], g))]

\* rigidBodyForces[i] += SpatialVec(com_B_G % (m*g), m*g).
GravityBodyForces(g, msub, rigidBodyForces) ==
    [i \in DOMAIN rigidBodyForces |->
        LET mg == VScale(Matter[msub].bodies[i].mass, g)
        IN  SAdd(rigidBodyForces[i], SpatialVec(VCross(GravityComBG[msub][i], mg), mg))]

\* pe += m*(~g*com_G - gh0) for bodies 0..n-1 of matter subsystem msub.
RECURSIVE GravityBodyPe(_, _, _, _, _)
GravityBodyPe(g, gh0, msub, n, pe) ==
    IF n = 0 THEN pe
    ELSE LET i == n - 1
         IN  RAdd(GravityBodyPe(g, gh0, msub, i, pe),
                  RMul(Matter[msub].bodies[i].mass, RSub(VDot(g, GravityComG[msub][i]), gh0)))

\* The loop over matter subsystems 0..n-1.
RECURSIVE GravityPe(_, _, _, _)
GravityPe(g, gh0, n, pe) ==
    IF n = 0 THEN pe
    ELSE GravityBodyPe(g, gh0, n - 1, getNBodies(n - 1), GravityPe(g, gh0, n - 1, pe))

\* realizeDynamics assigning the potential energy instead of adding to it.
GravityRealizeDynamics_AssignsPe(w) ==
    IF StageTooLow(w.s, Moving) THEN Throw(w, "StageTooLow")
    ELSE IF ~GravityGetParameters(w).enabled
            \/ GravityGetParameterCache(w).gMagnitude = Real(0)
    THEN Return(w, FALSE)
    ELSE LET g   == GravityGetParameters(w).gravity
             gh0 == RMul(GravityGetParameterCache(w).gMagnitude,
                         GravityGetParameters(w).zeroHeight)
         IN  Return([w EXCEPT
                       !.f.rigidBodyForces = [msub \in DOMAIN @ |->
                                                GravityBodyForces(g, msub, @[msub])],
                       !.f.particleForces  = [msub \in DOMAIN @ |->
                                                GravityParticleForces(g, msub, @[msub])],
                       !.f.pe = GravityPe(g, gh0, getNMatterSubsystems, Real(0))],
                    TRUE)

\* realizeDynamics testing only the magnitude, not the enable flag.
GravityRealizeDynamics_IgnoresEnabled(w) ==
    IF StageTooLow(w.s, Moving) THEN Throw(w, "StageTooLow")
    ELSE IF GravityGetParameterCache(w).gMagnitude = Real(0)
    THEN Return(w, FALSE)
    ELSE LET g   == GravityGetParameters(w).gravity
             gh0 == RMul(GravityGetParameterCache(w).gMagnitude,
                         GravityGetParameters(w).zeroHeight)
         IN  Return([w EXCEPT
                       !.f.rigidBodyForces = [msub \in DOMAIN @ |->
                                                GravityBodyForces(g, msub, @[msub])],
                       !.f.particleForces  = [msub \in DOMAIN @ |->
                                                GravityParticleForces(g, msub, @[msub])],
                       !.f.pe = GravityPe(g, gh0, getNMatterSubsystems, @)],
                    TRUE)

\* realizeDynamics visiting matter subsystem 0 only.
GravityRealizeDynamics_FirstMatterOnly(w) ==
    IF StageTooLow(w.s, Moving) THEN Throw(w, "StageTooLow")
    ELSE IF ~GravityGetParameters(w).enabled
            \/ GravityGetParameterCache(w).gMagnitude = Real(0)
    THEN Return(w, FALSE)
    ELSE LET g   == GravityGetParameters(w).gravity
             gh0 == RMul(GravityGetParameterCache(w).gMagnitude,
                         GravityGetParameters(w).zeroHeight)
         IN  Return([w EXCEPT
                       !.f.rigidBodyForces[0] = GravityBodyForces(g, 0, @),
                       !.f.particleForces[0]  = GravityParticleForces(g, 0, @),
                       !.f.pe = GravityPe(g, gh0, 1, @)],
                    TRUE)

GravityRealizeDynamics(w) ==
    IF StageTooLow(w.s, Moving) THEN Throw(w, "StageTooLow")
    ELSE IF ~GravityGetParameters(w).enabled
            \/ GravityGetParameterCache(w).gMagnitude = Real(0)
    THEN Return(w, FALSE)
    ELSE LET g   == GravityGetParameters(w).gravity
             gh0 == RMul(GravityGetParameterCache(w).gMagnitude,
                         GravityGetParameters(w).zeroHeight)
         IN  Return([w EXCEPT
                       !.f.rigidBodyForces = [msub \in DOMAIN @ |->
                                                GravityBodyForces(g, msub, @[msub])],
                       !.f.particleForces  = [msub \in DOMAIN @ |->
                                                GravityParticleForces(g, msub, @[msub])],
                       !.f.pe = GravityPe(g, gh0, getNMatterSubsystems, @)],
                    TRUE)

\* ------------------------------------------------------------ the system

VARIABLES
    spring,     \* the TwoPointSpringSubsystemRep object
    gravity,    \* the UniformGravitySubsystemRep object
    state,      \* the State s: realized stage, discrete variables, cache entries
    forces,     \* the MultibodySystem's force accumulators for s
    pass,       \* direct realizeDynamics calls since the accumulators were zeroed
    last        \* the call made last and how it ended

vars ==
    <<spring, gravity, state, forces, pass, last>>

World ==
    [spring |-> spring, gravity |-> gravity, s |-> state, f |-> forces]

WorldOf(r) ==
    [spring |-> r.spring, gravity |-> r.gravity, s |-> r.s, f |-> r.f]

\* The realize hook of each stage.
HookName(g) ==
    CASE g = Built        -> "realizeConstruction"
      [] g = Modeled      -> "realizeModeling"
      [] g = Parametrized -> "realizeParameters"
      [] g = Timed        -> "realizeTime"
      [] g = Configured   -> "realizeConfiguration"
      [] g = Moving       -> "realizeMotion"
      [] g = Dynamics     -> "realizeDynamics"
      [] OTHER            -> "realizeReaction"

\* Does subsystem e define the hook of stage g itself?  The spring defines
\* all eight; the gravity field leaves realizeModeling, realizeTime,
\* realizeMotion and realizeReaction to its base class ("not needed"); the
\* empty subsystem defines none.
Overrides(e, g) ==
    CASE e = "spring"  -> TRUE
      [] e = "gravity" -> g \in {Built, Parametrized, Configured, Dynamics}
      [] OTHER         -> FALSE

\* The virtual call subsystem e answers for the hook of stage g.
Hook(e, g, w) ==
    CASE ~Overrides(e, g) -> BaseRealize(w)
      [] e = "spring" ->
           (CASE g = Built        -> SpringRealizeConstruction(w)
              [] g = Modeled      -> SpringRealizeModeling(w)
              [] g = Parametrized -> SpringRealizeParameters(w)
              [] g = Timed        -> SpringRealizeTime(w)
              [] g = Configured   -> SpringRealizeConfiguration(w)
              [] g = Moving       -> SpringRealizeMotion(w)
              [] g = Dynamics     -> SpringRealizeDynamics(w)
              [] OTHER            -> SpringRealizeReaction(w))
      [] OTHER ->
           (CASE g = Built        -> GravityRealizeConstruction(w)
              [] g = Parametrized -> GravityRealizeParameters(w)
              [] g = Configured   -> GravityRealizeConfiguration(w)
              [] OTHER            -> GravityRealizeDynamics(w))

\* The result of a hook that ran after the calls summed up in r.
After(r, next) ==
    [next EXCEPT !.kinRead = @ \/ r.kinRead]

\* The system realizes stage g: the hook of every subsystem, in the order
\* given, up to the first that throws; r is the result so far.
RECURSIVE RunHooks(_, _, _)
RunHooks(order, g, r) ==
    IF order = <<>> \/ r.outcome # "ok" THEN r
    ELSE RunHooks(Tail(order), g, After(r, Hook(Head(order), g, WorldOf(r))))

Orders ==
    {o \in [1..Cardinality(Elements) -> Elements] :
        \A i, j \in DOMAIN o : i # j => o[i] # o[j]}

\* ---------------------------------------------------------------- inputs

StiffnessValues ==
    {Real(-1), Real(0), Real(100)}

NaturalLengthValues ==
    {Real(-1), Real(1), Real(2)}

DampingValues ==
    {Real(0), Real(3)}

SpringGravityValues ==
    {ZeroVec3, Vec3(0, 0, -1)}

GravityValues ==
    {ZeroVec3, <<Real(0), <<-49, 5>>, Real(0)>>, Vec3(3, -4, 0)}

ZeroHeightValues ==
    {Real(0), Real(5)}

\* ------------------------------------------------------------- behaviour

Init ==
    /\ \E t \in SpringTopologies :
          spring = NewSpring(t[1], t[2], t[3], t[4], Real(100), Real(1))
    /\ gravity = NewGravity(Vec3(3, -4, 0), Real(0))
    /\ state = NewState
    /\ forces = ZeroForces
    /\ pass = 0
    /\ last = [op |-> "new", elt |-> "system", outcome |-> "ok", kinRead |-> FALSE]

\* What a call that returned r leaves behind.
Leaves(r) ==
    /\ spring' = r.spring
    /\ gravity' = r.gravity
    /\ state' = r.s
    /\ forces' = r.f

\* A call of subsystem e's hook for stage g, made on the subsystem directly.
Call(e, g) ==
    /\ g = Built => Len(state.dvars[e]) < MaxConstructions
    /\ g = Dynamics => pass < MaxPass
    /\ \E r \in {Hook(e, g, World)} :
          /\ Leaves(r)
          /\ pass' = IF g = Dynamics /\ r.outcome = "ok" THEN pass + 1 ELSE pass
          /\ last' = [op |-> HookName(g), elt |-> e, outcome |-> r.outcome,
                      kinRead |-> r.kinRead]

\* The accumulators as the system hands them to the hooks of stage g: zeroed
\* when the stage is Dynamics.
Handed(g, w) ==
    IF g = Dynamics THEN [w EXCEPT !.f = ZeroForces] ELSE w

\* The State's stage advances to g unless a hook threw.
Advanced(g, r) ==
    [r EXCEPT !.s.stage = IF r.outcome = "ok" THEN g ELSE @]

\* The system realizes stage g of w: the accumulators are zeroed when the
\* stage is Dynamics, every subsystem's hook runs in the order given, and
\* the stage advances unless a hook threw.
RealizeStage(order, g, w) ==
    Advanced(g, RunHooks(order, g, Return(Handed(g, w), FALSE)))

\* The system advances the State by one stage, the hooks run in any order.
SystemRealize ==
    /\ state.stage < Reaction
    /\ \E order \in Orders, g \in {state.stage + 1} :
          \E r \in {RealizeStage(order, g, World)} :
              /\ Leaves(r)
              /\ pass' = IF g = Dynamics THEN 0 ELSE pass
              /\ last' = [op |-> "realize", elt |-> "system", outcome |-> r.outcome,
                          kinRead |-> r.kinRead]

\* A write through one of the spring's upd accessors.
SpringUpd(op, p) ==
    /\ spring.built
    /\ Leaves(Return(SpringUpdParameters(World, p), FALSE))
    /\ pass' = pass
    /\ last' = [op |-> op, elt |-> "spring", outcome |-> "ok", kinRead |-> FALSE]

UpdStiffness ==
    \E v \in StiffnessValues :
        SpringUpd("updStiffness", [SpringGetParameters(World) EXCEPT !.stiffness = v])

UpdNaturalLength ==
    \E v \in NaturalLengthValues :
        SpringUpd("updNaturalLength", [SpringGetParameters(World) EXCEPT !.naturalLength = v])

UpdDamping ==
    \E v \in DampingValues :
        SpringUpd("updDamping", [SpringGetParameters(World) EXCEPT !.damping = v])

SpringUpdGravity ==
    \E v \in SpringGravityValues :
        SpringUpd("updGravity", [SpringGetParameters(World) EXCEPT !.gravity = v])

\* A write through one of the gravity subsystem's upd accessors.
GravityUpd(op, p) ==
    /\ gravity.built
    /\ Leaves(Return(GravityUpdParameters(World, p), FALSE))
    /\ pass' = pass
    /\ last' = [op |-> op, elt |-> "gravity", outcome |-> "ok", kinRead |-> FALSE]

UpdGravity ==
    \E v \in GravityValues :
        GravityUpd("updGravity", [GravityGetParameters(World) EXCEPT !.gravity = v])

UpdZeroHeight ==
    \E v \in ZeroHeightValues :
        GravityUpd("updZeroHeight", [GravityGetParameters(World) EXCEPT !.zeroHeight = v])

UpdIsEnabled ==
    \E v \in BOOLEAN :
        GravityUpd("updIsEnabled", [GravityGetParameters(World) EXCEPT !.enabled = v])

\* The writes of a stiffness and of a natural length that realizeParameters
\* accepts.
UpdStiffnessValid ==
    \E v \in {Real(0), Real(100)} :
        SpringUpd("updStiffness", [SpringGetParameters(World) EXCEPT !.stiffness = v])

UpdNaturalLengthValid ==
    \E v \in {Real(1), Real(2)} :
        SpringUpd("updNaturalLength", [SpringGetParameters(World) EXCEPT !.naturalLength = v])

\* The gravity vector switched between zero and the one of Init.
UpdGravitySwitch ==
    \E v \in {ZeroVec3, Vec3(3, -4, 0)} :
        GravityUpd("updGravity", [GravityGetParameters(World) EXCEPT !.gravity = v])

\* A read through one of the response accessors: nothing changes.
Get(e, op, r) ==
    /\ UNCHANGED <<spring, gravity, state, forces, pass>>
    /\ last' = [op |-> op, elt |-> e, outcome |-> r.outcome, kinRead |-> FALSE,
                value |-> r.value]

GetPotentialEnergy ==
    spring.built /\ Get("spring", "getPotentialEnergy", SpringGetPotentialEnergy(World))

GetForceOnStation1 ==
    spring.built /\ Get("spring", "getForceOnStation1", SpringGetForceOnStation1(World))

GetGravityMagnitude ==
    gravity.built /\ Get("gravity", "getGravityMagnitude", GravityGetGravityMagnitude(World))

GetGravityDirection ==
    gravity.built /\ Get("gravity", "getGravityDirection", GravityGetGravityDirection(World))

\* ------------------------------------------------ calls made directly

\* realizeConstruction called on a subsystem directly.
Construct ==
    \E e \in Elements : Call(e, Built)

\* The seven hooks of the stages after Built.
Stages ==
    Modeled..Reaction

SpringCall ==
    \E g \in Stages : Call("spring", g)

GravityCall ==
    \E g \in Stages : Call("gravity", g)

EmptyCall ==
    \E g \in Stages : Call("empty", g)

\* The hooks that validate or compute something.
SpringCompute ==
    \E g \in {Parametrized, Configured, Dynamics} : Call("spring", g)

GravityCompute ==
    \E g \in {Parametrized, Dynamics} : Call("gravity", g)

\* ---------------------------------------------------------- specifications

\* Every operation.
Next ==
    \/ SystemRealize
    \/ Construct
    \/ SpringCall
    \/ GravityCall
    \/ EmptyCall
    \/ UpdStiffness
    \/ UpdNaturalLength
    \/ UpdDamping
    \/ SpringUpdGravity
    \/ UpdGravity
    \/ UpdZeroHeight
    \/ UpdIsEnabled

Spec ==
    Init /\ [][Next]_vars

\* The hooks of all three subsystems called at every stage, the variables
\* left as constructed.
NextCalls ==
    \/ SystemRealize
    \/ SpringCall
    \/ GravityCall
    \/ EmptyCall

SpecCalls ==
    Init /\ [][NextCalls]_vars

\* All eight hooks of all three subsystems, realizeConstruction included,
\* the variables left as constructed.
NextHooks ==
    \/ SystemRealize
    \/ Construct
    \/ SpringCall
    \/ GravityCall
    \/ EmptyCall

SpecHooks ==
    Init /\ [][NextHooks]_vars

\* The spring with its stiffness, natural length and damping varied.
NextSpring ==
    \/ SystemRealize
    \/ SpringCompute
    \/ UpdStiffness
    \/ UpdNaturalLength
    \/ UpdDamping

SpecSpring ==
    Init /\ [][NextSpring]_vars

\* The first spring of SpringTopologies only.
InitOneSpring ==
    Init /\ spring.body1 = 0 /\ spring.body2 = 1

\* The gravity field with its variables varied.
NextGravity ==
    \/ SystemRealize
    \/ GravityCompute
    \/ UpdGravity
    \/ UpdZeroHeight
    \/ UpdIsEnabled

SpecGravity ==
    InitOneSpring /\ [][NextGravity]_vars

SpringRealizeParametersCall ==
    Call("spring", Parametrized)

GravityRealizeParametersCall ==
    Call("gravity", Parametrized)

SpringRealizeConfigurationCall ==
    Call("spring", Configured)

\* Every variable of both subsystems written, through each of the seven upd
\* accessors, between the system's realizations and direct calls of the
\* hooks that fill in the Parametrized and Configured cache entries.
NextVariables ==
    \/ SystemRealize
    \/ SpringRealizeParametersCall
    \/ SpringRealizeConfigurationCall
    \/ GravityRealizeParametersCall
    \/ UpdStiffnessValid
    \/ UpdNaturalLengthValid
    \/ UpdDamping
    \/ SpringUpdGravity
    \/ UpdGravitySwitch
    \/ UpdZeroHeight
    \/ UpdIsEnabled

SpecVariables ==
    InitOneSpring /\ [][NextVariables]_vars

\* The responses read at every stage, between realizations and writes.
NextReads ==
    \/ SystemRealize
    \/ GetPotentialEnergy
    \/ GetForceOnStation1
    \/ GetGravityMagnitude
    \/ GetGravityDirection
    \/ UpdStiffnessValid
    \/ UpdNaturalLengthValid
    \/ UpdGravitySwitch

SpecReads ==
    Init /\ [][NextReads]_vars

\* The system realizes the State up to stage Parametrized and no further.
RealizeToParametrized ==
    /\ state.stage < Parametrized
    /\ SystemRealize

\* realizeParameters of both subsystems for every value of their variables.
NextParameters ==
    \/ RealizeToParametrized
    \/ SpringRealizeParametersCall
    \/ GravityRealizeParametersCall
    \/ UpdStiffness
    \/ UpdNaturalLength
    \/ UpdDamping
    \/ UpdGravity
    \/ UpdZeroHeight
    \/ UpdIsEnabled

SpecParameters ==
    InitOneSpring /\ [][NextParameters]_vars

\* ------------------------------------------------------- stage checks

\* The step ends a call, made on subsystem e directly, of its hook for stage g.
Called(e, g) ==
    /\ last'.elt = e
    /\ last'.op = HookName(g)

\* The step is such a call and the subsystem's own hook ran to its end.
Ran(e, g) ==
    /\ Called(e, g)
    /\ Overrides(e, g)
    /\ last'.outcome = "ok"

NothingChanged ==
    UNCHANGED <<spring, gravity, state, forces>>

\* C2 as stated: for the spring and the gravity field and every realize hook,
\* a call in a state whose realized stage is below the hook's predecessor
\* stage ends in the stage error and changes no variable, cache entry or
\* accumulator buffer.
C2_EveryHookBelowStageFails ==
    [][\A e \in {"spring", "gravity"} : \A g \in Stages :
          (Called(e, g) /\ state.stage < g - 1)
            => (last'.outcome = "StageTooLow" /\ NothingChanged)]_vars

\* C2, amended: the same for every hook the subsystem defines itself (all
\* seven of the spring, realizeParameters, realizeConfiguration and
\* realizeDynamics of the gravity field); the hooks the gravity field
\* inherits return without an error, and they too change nothing.
C2_DefinedHookBelowStageFails ==
    [][\A e \in {"spring", "gravity"} : \A g \in Stages :
          (Called(e, g) /\ state.stage < g - 1)
            => /\ NothingChanged
               /\ last'.outcome = IF Overrides(e, g) THEN "StageTooLow" ELSE "ok"]_vars

\* realizeDynamics of the spring has failed on a State realized through
\* Configured only, whose configuration cache is filled in.
C2_FailedBelowStage ==
    /\ last = [op |-> "realizeDynamics", elt |-> "spring", outcome |-> "StageTooLow",
               kinRead |-> FALSE]
    /\ state.stage = Configured
    /\ ~IsNaN(SpringGetConfigurationCache(World).pe)

\* ------------------------------------------------------ value checks

\* The number a is below zero.
Negative(a) ==
    a[1] < 0

\* C3: the spring's realizeParameters, called in a state realized through
\* Modeled or further, throws the value error if and only if the stiffness
\* or the natural length is negative, and then changes nothing (variables,
\* cache entries, accumulators); otherwise it returns normally.  The gravity
\* field's realizeParameters returns normally for every gravity vector,
\* zero height and enable flag.
C3_RealizeParametersRejectsNegative ==
    [][/\ (Called("spring", Parametrized) /\ state.stage >= Modeled)
            => /\ last'.outcome =
                    IF \/ Negative(SpringGetParameters(World).stiffness)
                       \/ Negative(SpringGetParameters(World).naturalLength)
                    THEN "ValueWasNegative" ELSE "ok"
               /\ last'.outcome = "ValueWasNegative" => NothingChanged
       /\ (Called("gravity", Parametrized) /\ state.stage >= Modeled)
            => last'.outcome = "ok"]_vars

\* The spring's realizeParameters has failed on a negative natural length
\* alone, with zero stiffness and nonzero damping, while the gravity field
\* is disabled with a zero gravity vector.
C3_RejectedNaturalLength ==
    /\ last = [op |-> "realizeParameters", elt |-> "spring",
               outcome |-> "ValueWasNegative", kinRead |-> FALSE]
    /\ state.stage = Modeled
    /\ SpringGetParameters(World).stiffness = Real(0)
    /\ SpringGetParameters(World).naturalLength = Real(-1)
    /\ SpringGetParameters(World).damping = Real(3)
    /\ GravityGetParameters(World) =
          [gravity |-> ZeroVec3, zeroHeight |-> Real(5), enabled |-> FALSE]

\* ----------------------------------------------------- the spring's force

\* The separation v = p2 - p1 of the stations in G and its length x, for
\* each of the springs of SpringTopologies, worked out by hand from the
\* bodies' configurations.
Separation(self) ==
    CASE self.body1 = 0 /\ self.body2 = 1 -> [v |-> Vec3(2, 0, 0),  x |-> Real(2)]
      [] self.body1 = 1 /\ self.body2 = 2 -> [v |-> Vec3(-3, 4, 0), x |-> Real(5)]
      [] self.body1 = 1 /\ self.body2 = 1 -> [v |-> Vec3(0, 2, 0),  x |-> Real(2)]
      [] OTHER                            -> [v |-> Vec3(0, 0, 0),  x |-> Real(0)]

\* The spring's variables as stored in State s.
ParametersIn(self, s) ==
    getDiscreteVariable(s, "spring", self.parameterVarsIndex)

ConfigurationCacheIn(self, s) ==
    getCacheEntry(s, "spring", self.configurationCacheIndex)

DynamicsCacheIn(self, s) ==
    getCacheEntry(s, "spring", self.dynamicsCacheIndex)

\* k(x - x0)^2 / 2.
HalfKStretchSquared(k, x0, x) ==
    RDiv(RMul(k, RMul(RSub(x, x0), RSub(x, x0))), Real(2))

\* (k(x - x0) / x) * v.
KStretchAlong(k, x0, x, v) ==
    VScale(RDiv(RMul(k, RSub(x, x0)), x), v)

\* In State s, for stations apart: a valid configuration cache holds the
\* potential energy k(x-x0)^2/2 and a valid dynamics cache the force
\* (k(x-x0)/x)*v.
SpringCachesRight(self, s) ==
    LET p   == ParametersIn(self, s)
        sep == Separation(self)
    IN  sep.x # Real(0) =>
          /\ s.stage >= Configured =>
                ConfigurationCacheIn(self, s).pe
                    = HalfKStretchSquared(p.stiffness, p.naturalLength, sep.x)
          /\ s.stage >= Dynamics =>
                DynamicsCacheIn(self, s).f1_G
                    = KStretchAlong(p.stiffness, p.naturalLength, sep.x, sep.v)

\* The linear force the step added to body b's slot of matter subsystem 0.
AddedForce(b) ==
    VSub(forces'.rigidBodyForces[0][b].force, forces.rigidBodyForces[0][b].force)

\* C4: for all stiffness k >= 0, natural length x0 >= 0 and separation
\* x > 0, in every direction of v: once realizeConfiguration has run the
\* cached potential energy is k(x-x0)^2/2; once realizeDynamics has run the
\* cached force on station 1 is (k(x-x0)/x)*v; and a realizeDynamics call
\* adds that force to body1's slot and its negation to body2's slot (the two
\* cancelling in the one slot when body1 and body2 are the same body).
C4_SpringEnergyAndForce ==
    [][/\ spring'.built => SpringCachesRight(spring', state')
       /\ (Called("spring", Dynamics) /\ last'.outcome = "ok"
              /\ Separation(spring).x # Real(0))
            => LET p  == ParametersIn(spring, state)
                   f1 == KStretchAlong(p.stiffness, p.naturalLength,
                                       Separation(spring).x, Separation(spring).v)
               IN  /\ DynamicsCacheIn(spring', state').f1_G = f1
                   /\ AddedForce(spring.body1) =
                          IF spring.body1 = spring.body2 THEN ZeroVec3 ELSE f1
                   /\ AddedForce(spring.body2) =
                          IF spring.body1 = spring.body2 THEN ZeroVec3 ELSE VNeg(f1)]_vars

\* The spring with k = 100, x0 = 1 and stations 2 apart along x has been
\* realized through Dynamics (pe 50, force 100 along x) and its
\* realizeDynamics then called once more.
C4_ExampleRealized ==
    /\ last = [op |-> "realizeDynamics", elt |-> "spring", outcome |-> "ok",
               kinRead |-> TRUE]
    /\ state.stage = Dynamics
    /\ spring.body1 = 0 /\ spring.body2 = 1
    /\ SpringGetParameters(World).stiffness = Real(100)
    /\ SpringGetParameters(World).naturalLength = Real(1)
    /\ SpringGetConfigurationCache(World).pe = Real(50)
    /\ SpringGetDynamicsCache(World).f1_G = Vec3(100, 0, 0)
    /\ forces.rigidBodyForces[0][0].force[1] = Real(200)
    /\ forces.rigidBodyForces[0][1].force[1] = Real(-194)

\* Every component of the vector v is not-a-number.
AllNaN(v) ==
    \A i \in 1..3 : IsNaN(v[i])

\* C5: when the spring's stations coincide (x = 0), for every stiffness and
\* natural length that passed realizeParameters, realizeDynamics returns
\* normally, every component of the cached force on station 1 is
\* not-a-number, and not-a-number is what the linear force and the moment of
\* body1's and body2's accumulator slots then hold.
C5_CoincidentStationsGiveNaN ==
    [][(Called("spring", Dynamics) /\ state.stage >= Moving
          /\ Separation(spring).x = Real(0))
        => /\ last'.outcome = "ok"
           /\ AllNaN(DynamicsCacheIn(spring', state').f1_G)
           /\ \A b \in {spring.body1, spring.body2} :
                 /\ AllNaN(forces'.rigidBodyForces[0][b].force)
                 /\ AllNaN(forces'.rigidBodyForces[0][b].moment)]_vars

\* realizeDynamics of the spring with coincident stations, k = 100 and
\* x0 = 1 has returned normally, leaving not-a-number in body1's slot and
\* the finite potential energy 50 of the spring in the cache.
C5_CoincidentRealized ==
    /\ last = [op |-> "realizeDynamics", elt |-> "spring", outcome |-> "ok",
               kinRead |-> TRUE]
    /\ Separation(spring).x = Real(0)
    /\ SpringGetConfigurationCache(World).x = Real(0)
    /\ SpringGetParameters(World).stiffness = Real(100)
    /\ SpringGetParameters(World).naturalLength = Real(1)
    /\ SpringGetConfigurationCache(World).fscalar = Real(-100)
    /\ SpringGetConfigurationCache(World).pe = Real(50)
    /\ AllNaN(forces.rigidBodyForces[0][spring.body1].force)
    /\ AllNaN(SpringGetDynamicsCache(World).f1_G)

\* C7: the spring's realizeDynamics changes the mobility forces of its
\* matter subsystem by exactly -damping * u (by nothing when damping is 0),
\* whatever the station geometry, coincident stations included; the other
\* matter subsystem's mobility forces and every particle slot stay as they
\* are, and the body slots and the potential energy change by the spring
\* force and energy alone, the same for every damping.
C7_DampingOnMobilityForcesOnly ==
    [][(Called("spring", Dynamics) /\ state.stage >= Moving)
        => LET damping == ParametersIn(spring, state).damping
               cc      == ConfigurationCacheIn(spring, state)
           IN  /\ last'.outcome = "ok"
               /\ \A i \in DOMAIN Matter[0].U :
                     forces'.mobilityForces[0][i] =
                        RSub(forces.mobilityForces[0][i], RMul(damping, Matter[0].U[i]))
               /\ damping = Real(0) => forces'.mobilityForces = forces.mobilityForces
               /\ forces'.mobilityForces[1] = forces.mobilityForces[1]
               /\ forces'.particleForces = forces.particleForces
               /\ forces'.pe = RAdd(forces.pe, cc.pe)
               /\ forces'.rigidBodyForces =
                     [forces.rigidBodyForces EXCEPT ![0] =
                        SpringBodyForces(spring, cc, DynamicsCacheIn(spring', state').f1_G, @)]]_vars

\* realizeDynamics of the spring with coincident stations and damping 3 has
\* run on zeroed accumulators with u = (1, -2): the mobility forces are
\* (-3, 6), the other matter subsystem's are zero.
C7_DampedCoincidentRealized ==
    /\ last = [op |-> "realizeDynamics", elt |-> "spring", outcome |-> "ok",
               kinRead |-> TRUE]
    /\ Separation(spring).x = Real(0)
    /\ SpringGetParameters(World).damping = Real(3)
    /\ forces.mobilityForces[0][0] = Real(-3)
    /\ forces.mobilityForces[0][1] = Real(6)
    /\ forces.mobilityForces[1][0] = Real(0)
    /\ forces.particleForces = ZeroForces.particleForces

\* ------------------------------------------------------- the gravity field

\* C6: when the gravity field is disabled, whatever its gravity vector and
\* zero height, or when its gravity vector is zero, realizeDynamics returns
\* normally having changed no body slot, no particle slot, no mobility force
\* and not the potential energy of any matter subsystem, and without having
\* queried a matter subsystem for body or particle data.
C6_DisabledOrZeroGravityDoesNothing ==
    [][(Called("gravity", Dynamics) /\ state.stage >= Moving
          /\ (\/ ~GravityGetParameters(World).enabled
              \/ GravityGetParameters(World).gravity = ZeroVec3))
        => /\ last'.outcome = "ok"
           /\ ~last'.kinRead
           /\ forces' = forces]_vars

\* realizeDynamics of the disabled gravity field with gravity vector
\* (0, -9.8, 0) and zero height 5 has returned, the accumulators holding
\* what the spring alone added in the system's Dynamics pass.
C6_DisabledRealized ==
    /\ last = [op |-> "realizeDynamics", elt |-> "gravity", outcome |-> "ok",
               kinRead |-> FALSE]
    /\ state.stage = Dynamics
    /\ GravityGetParameters(World) =
          [gravity |-> <<Real(0), <<-49, 5>>, Real(0)>>, zeroHeight |-> Real(5),
           enabled |-> FALSE]
    /\ GravityGetParameterCache(World).gMagnitude = <<49, 5>>
    /\ forces.pe = Real(50)
    /\ forces.rigidBodyForces[0][0].force = Vec3(100, 0, 0)
    /\ forces.particleForces[0][0] = ZeroVec3

\* --------------------------------------------------------- the accumulators

\* The sum of two sets of accumulators, buffer by buffer.
ForcesSum(a, b) ==
    [rigidBodyForces |-> [msub \in DOMAIN a.rigidBodyForces |->
                            [i \in DOMAIN a.rigidBodyForces[msub] |->
                                SAdd(a.rigidBodyForces[msub][i], b.rigidBodyForces[msub][i])]],
     particleForces  |-> [msub \in DOMAIN a.particleForces |->
                            [i \in DOMAIN a.particleForces[msub] |->
                                VAdd(a.particleForces[msub][i], b.particleForces[msub][i])]],
     mobilityForces  |-> [msub \in DOMAIN a.mobilityForces |->
                            [i \in DOMAIN a.mobilityForces[msub] |->
                                RAdd(a.mobilityForces[msub][i], b.mobilityForces[msub][i])]],
     pe |-> RAdd(a.pe, b.pe)]

\* What subsystem e's realizeDynamics leaves in the accumulators when it
\* runs alone, on zeroed accumulators, against the current State.
Alone(e) ==
    Hook(e, Dynamics, [World EXCEPT !.f = ZeroForces]).f

\* C8: whatever the order in which the system runs the realizeDynamics hooks
\* of the spring, the gravity field and the empty subsystem in a Dynamics
\* pass, the accumulators after the pass hold the sum of what each
\* subsystem adds when run alone on zeroed accumulators against the same
\* State (sums taken exactly, rounding apart).
C8_PassIsSumOfContributions ==
    [][(last'.op = "realize" /\ last'.outcome = "ok" /\ state'.stage = Dynamics)
        => forces' = ForcesSum(ForcesSum(Alone("spring"), Alone("gravity")),
                               Alone("empty"))]_vars

\* A Dynamics pass has run with the oblique, damped spring and the gravity
\* field both contributing: potential energy 800 of the spring (k = 100,
\* x0 = 1, x = 5) and -60 of gravity, body 2 pulled by both.
C8_BothContributed ==
    /\ last = [op |-> "realize", elt |-> "system", outcome |-> "ok", kinRead |-> TRUE]
    /\ state.stage = Dynamics
    /\ spring.body1 = 1 /\ spring.body2 = 2
    /\ SpringGetParameters(World).damping = Real(3)
    /\ SpringGetConfigurationCache(World).pe = Real(800)
    /\ forces.pe = Real(800 - 60)
    /\ forces.rigidBodyForces[0][2].force = Vec3(240 + 3, -320 - 4, 0)
    /\ forces.mobilityForces[0][0] = Real(-3)
    /\ forces.particleForces[1][0] = Vec3(3, -4, 0)

\* ------------------------------------------------------------ invalidation

\* The seven upd accessors, by subsystem and name.
Accessors ==
    {<<"spring", "updStiffness">>, <<"spring", "updNaturalLength">>,
     <<"spring", "updDamping">>, <<"spring", "updGravity">>,
     <<"gravity", "updGravity">>, <<"gravity", "updZeroHeight">>,
     <<"gravity", "updIsEnabled">>}

\* The step is a write through one of them.
Wrote ==
    <<last'.elt, last'.op>> \in Accessors

\* No cache entry of State s tagged Parametrized or later may be read.
NoCacheEntryValid(s) ==
    \A e \in Elements : \A i \in 1..Len(s.cache[e]) :
        s.cache[e][i].stage >= Parametrized => ~CacheEntryValid(s, e, i - 1)

\* The length of each gravity vector tried, worked out by hand.
GravityLength(g) ==
    CASE g = ZeroVec3       -> Real(0)
      [] g = Vec3(3, -4, 0) -> Real(5)
      [] OTHER              -> <<49, 5>>

\* The potential energy of the bodies in the gravity field of variables p,
\* worked out by hand: the bodies weigh 5 in all and their mass moments sum
\* to (4, 18, 0), so it is g.(4, 18, 0) - 5|g|z.
GravityEnergy(p) ==
    IF ~p.enabled \/ p.gravity = ZeroVec3 THEN Real(0)
    ELSE RSub(VDot(p.gravity, Vec3(4, 18, 0)),
              RMul(Real(5), RMul(GravityLength(p.gravity), p.zeroHeight)))

\* In State s a valid parameter cache of the gravity field holds the length
\* of the gravity vector now stored, and its direction.
GravityCacheRight(self, s) ==
    LET g  == getDiscreteVariable(s, "gravity", self.parameterVarsIndex).gravity
        pc == getCacheEntry(s, "gravity", self.parameterCacheIndex)
    IN  s.stage >= Parametrized =>
          /\ pc.gMagnitude = GravityLength(g)
          /\ g # ZeroVec3 => VScale(pc.gMagnitude, pc.gDirection) = g

\* C9: a write through any of the seven upd accessors, in a state of any
\* stage, leaves the State realized below Parametrized, so that no cache
\* entry tagged Parametrized or later can be read; and in every
\* interleaving of writes, system realizations and direct hook calls, a
\* cache entry that can be read holds the value of the variables as they are
\* now (potential energy and force of the spring, length and direction of
\* the gravity vector), and a Dynamics pass leaves in the accumulators the
\* energy, damping and particle forces of the variables as they are now.
C9_UpdInvalidatesCaches ==
    [][/\ Wrote => (state'.stage < Parametrized /\ NoCacheEntryValid(state'))
       /\ spring'.built => SpringCachesRight(spring', state')
       /\ gravity'.built => GravityCacheRight(gravity', state')
       /\ (last'.op = "realize" /\ last'.outcome = "ok" /\ state'.stage = Dynamics)
            => LET p  == ParametersIn(spring', state')
                   gp == getDiscreteVariable(state', "gravity", gravity'.parameterVarsIndex)
               IN  /\ forces'.pe =
                          RAdd(HalfKStretchSquared(p.stiffness, p.naturalLength,
                                                   Separation(spring').x),
                               GravityEnergy(gp))
                   /\ \A i \in DOMAIN Matter[0].U :
                          forces'.mobilityForces[0][i] =
                              RSub(Real(0), RMul(p.damping, Matter[0].U[i]))
                   /\ forces'.particleForces[1][0] =
                          IF gp.enabled THEN VScale(Matter[1].particleMasses[0], gp.gravity)
                          ELSE ZeroVec3]_vars

\* The zero height has been written to 5 on a State that a Dynamics pass had
\* realized with zero height 0 (the accumulators still hold its energy,
\* 50 - 60): the State is back at Modeled and the caches of both subsystems
\* are unset.
C9_WroteAfterDynamics ==
    /\ last = [op |-> "updZeroHeight", elt |-> "gravity", outcome |-> "ok",
               kinRead |-> FALSE]
    /\ state.stage = Modeled
    /\ GravityGetParameters(World).zeroHeight = Real(5)
    /\ GravityGetParameters(World).enabled
    /\ forces.pe = Real(50 - 60)
    /\ IsNaN(GravityGetParameterCache(World).gMagnitude)
    /\ IsNaN(SpringGetConfigurationCache(World).pe)
    /\ AllNaN(SpringGetDynamicsCache(World).f1_G)

\* ---------------------------------------------------------- re-realization

\* The order in which the hooks run when the outcome does not depend on it.
SomeOrder ==
    CHOOSE o \in Orders : TRUE

\* What the system's realizations leave of r, stage after stage up to
\* target or to the first hook that throws.
RECURSIVE RealizedThrough(_, _)
RealizedThrough(r, target) ==
    IF r.s.stage >= target \/ r.outcome # "ok" THEN r
    ELSE RealizedThrough(RealizeStage(SomeOrder, r.s.stage + 1, WorldOf(r)), target)

\* The step writes a stiffness other than the one stored.
StiffnessChanged ==
    /\ last'.elt = "spring" /\ last'.op = "updStiffness"
    /\ ParametersIn(spring', state').stiffness # ParametersIn(spring, state).stiffness

\* C10 as stated: once realizeConfiguration (and realizeDynamics) has run,
\* writing a different stiffness and realizing again through Configured (and
\* Dynamics) gives a potential energy (and a force) that differs from the
\* one cached before the write.
C10_NewStiffnessChangesEnergyAndForce ==
    [][StiffnessChanged =>
          /\ state.stage >= Configured =>
                LET again == RealizedThrough(Return(World', FALSE), Configured)
                IN  /\ again.s.stage = Configured
                    /\ ConfigurationCacheIn(spring, again.s).pe
                          # ConfigurationCacheIn(spring, state).pe
          /\ state.stage >= Dynamics =>
                LET again == RealizedThrough(Return(World', FALSE), Dynamics)
                IN  /\ again.s.stage = Dynamics
                    /\ DynamicsCacheIn(spring, again.s).f1_G
                          # DynamicsCacheIn(spring, state).f1_G]_vars

\* C10, amended: the same when the new stiffness is not negative and the
\* stations are apart by another length than the natural length (and, for
\* the force, not coincident).  With the stations apart by exactly the
\* natural length the energy and the force are zero before and after,
\* whatever the two stiffnesses; with a negative new stiffness the
\* realization stops at realizeParameters with the value error and the State
\* stays at Modeled.
C10_NewStiffnessChangesEnergyUnlessAtRest ==
    [][StiffnessChanged =>
          LET k     == ParametersIn(spring', state').stiffness
              x0    == ParametersIn(spring', state').naturalLength
              x     == Separation(spring).x
              again == RealizedThrough(Return(World', FALSE), Dynamics)
          IN  /\ (state.stage >= Configured /\ Negative(k))
                    => (again.outcome = "ValueWasNegative" /\ again.s.stage = Modeled)
              /\ (state.stage >= Configured /\ ~Negative(k))
                    => /\ again.s.stage = Dynamics
                       /\ (ConfigurationCacheIn(spring, again.s).pe
                              # ConfigurationCacheIn(spring, state).pe) <=> (x # x0)
                       /\ x = x0 => ConfigurationCacheIn(spring, again.s).pe = Real(0)
              /\ (state.stage >= Dynamics /\ ~Negative(k) /\ x # Real(0))
                    => /\ (DynamicsCacheIn(spring, again.s).f1_G
                              # DynamicsCacheIn(spring, state).f1_G) <=> (x # x0)
                       /\ x = x0 => DynamicsCacheIn(spring, again.s).f1_G = ZeroVec3]_vars

\* The stiffness of the oblique spring (x = 5, x0 = 1) has been written from
\* 100 to 0 after a Dynamics pass (the accumulators still hold its energy,
\* 800 - 60), and realizing again gives the energy 0 and no force.
C10_StiffnessWrittenAfterDynamics ==
    /\ last = [op |-> "updStiffness", elt |-> "spring", outcome |-> "ok",
               kinRead |-> FALSE]
    /\ state.stage = Modeled
    /\ spring.body1 = 1 /\ spring.body2 = 2
    /\ SpringGetParameters(World).stiffness = Real(0)
    /\ SpringGetParameters(World).naturalLength = Real(1)
    /\ forces.pe = Real(800 - 60)
    /\ forces.rigidBodyForces[0][2].force = Vec3(240 + 3, -320 - 4, 0)
    /\ SpringGetConfigurationCache(RealizedThrough(Return(World, FALSE), Dynamics)).pe
          = Real(0)
    /\ SpringGetDynamicsCache(RealizedThrough(Return(World, FALSE), Dynamics)).f1_G
          = ZeroVec3

\* ------------------------------------------------------------------- reads

\* The step is a read of response op of subsystem e.
Read(e, op) ==
    /\ last'.elt = e
    /\ last'.op = op

\* C11: a read of a response through its accessor fails with the stage
\* error, and returns no value, exactly when the realized stage is below the
\* stage of the cache entry read (Configured for getPotentialEnergy,
\* Dynamics for getForceOnStation1, Parametrized for getGravityMagnitude
\* and getGravityDirection); otherwise it returns what the entry holds; and
\* it changes nothing.
C11_ReadBelowStageFails ==
    [][/\ \A a \in {<<"spring", "getPotentialEnergy", Configured>>,
                     <<"spring", "getForceOnStation1", Dynamics>>,
                     <<"gravity", "getGravityMagnitude", Parametrized>>,
                     <<"gravity", "getGravityDirection", Parametrized>>} :
             Read(a[1], a[2]) =>
                /\ NothingChanged
                /\ (last'.outcome = "StageTooLow") <=> (state.stage < a[3])
                /\ (last'.outcome = "ok") <=> (state.stage >= a[3])
                /\ last'.outcome = "StageTooLow" => last'.value = <<>>
       /\ (Read("spring", "getPotentialEnergy") /\ last'.outcome = "ok")
             => last'.value = ConfigurationCacheIn(spring, state).pe
       /\ (Read("spring", "getForceOnStation1") /\ last'.outcome = "ok")
             => last'.value = DynamicsCacheIn(spring, state).f1_G
       /\ (Read("gravity", "getGravityMagnitude") /\ last'.outcome = "ok")
             => last'.value = GravityGetParameterCache(World).gMagnitude
       /\ (Read("gravity", "getGravityDirection") /\ last'.outcome = "ok")
             => last'.value = GravityGetParameterCache(World).gDirection]_vars

\* getForceOnStation1 has failed on a State realized through Moving, whose
\* configuration cache (potential energy 50) can be read.
C11_ForceReadBeforeDynamics ==
    /\ last = [op |-> "getForceOnStation1", elt |-> "spring", outcome |-> "StageTooLow",
               kinRead |-> FALSE, value |-> <<>>]
    /\ state.stage = Moving
    /\ SpringGetPotentialEnergy(World) = [outcome |-> "ok", value |-> Real(50)]

\* ------------------------------------------------------ the gravity forces

\* Every body of every matter subsystem, worked out by hand: its mass, its
\* centre of mass from the body origin re-expressed in G, and its centre of
\* mass in G.
Bodies ==
    {[msub |-> 0, i |-> 0, m |-> 0, com_B_G |-> Vec3(0, 0, 0), com_G |-> Vec3(0, 0, 0)],
     [msub |-> 0, i |-> 1, m |-> 2, com_B_G |-> Vec3(0, 1, 0), com_G |-> Vec3(2, 1, 0)],
     [msub |-> 0, i |-> 2, m |-> 1, com_B_G |-> Vec3(0, 1, 0), com_G |-> Vec3(0, 6, 0)],
     [msub |-> 1, i |-> 0, m |-> 2, com_B_G |-> Vec3(0, 0, 0), com_G |-> Vec3(0, 5, 0)]}

\* Every particle of every matter subsystem and its mass.
Particles ==
    {[msub |-> 0, i |-> 0, m |-> 3], [msub |-> 1, i |-> 0, m |-> 1]}

\* a x b, component by component.
CrossByHand(a, b) ==
    <<RSub(RMul(a[2], b[3]), RMul(a[3], b[2])),
      RSub(RMul(a[3], b[1]), RMul(a[1], b[3])),
      RSub(RMul(a[1], b[2]), RMul(a[2], b[1]))>>

\* The sum of m*(g.com_G - |g|z) over the bodies of B.
RECURSIVE EnergyOf(_, _, _)
EnergyOf(B, g, z) ==
    IF B = {} THEN Real(0)
    ELSE LET b == CHOOSE b \in B : TRUE
         IN  RAdd(EnergyOf(B \ {b}, g, z),
                  RMul(Real(b.m), RSub(VDot(g, b.com_G), RMul(GravityLength(g), z))))

\* C12: when the gravity field is enabled and its gravity vector g is not
\* zero, a realizeDynamics call adds m*g to the slot of every particle and
\* (com_B_G x (m*g), m*g) to the slot of every body, of every matter
\* subsystem, and adds the sum over all those bodies of
\* m*(g.com_G - |g|*zeroHeight) to the potential energy; the mobility forces
\* stay as they are.
C12_GravityAddsToEveryMatterSubsystem ==
    [][(Called("gravity", Dynamics) /\ state.stage >= Moving
          /\ GravityGetParameters(World).enabled
          /\ GravityGetParameters(World).gravity # ZeroVec3)
        => LET g == GravityGetParameters(World).gravity
               z == GravityGetParameters(World).zeroHeight
           IN  /\ last'.outcome = "ok"
               /\ DOMAIN forces'.particleForces = {0, 1}
               /\ \A p \in Particles :
                     forces'.particleForces[p.msub][p.i] =
                        VAdd(forces.particleForces[p.msub][p.i], VScale(Real(p.m), g))
               /\ \A b \in Bodies :
                     /\ forces'.rigidBodyForces[b.msub][b.i].force =
                           VAdd(forces.rigidBodyForces[b.msub][b.i].force,
                                VScale(Real(b.m), g))
                     /\ forces'.rigidBodyForces[b.msub][b.i].moment =
                           VAdd(forces.rigidBodyForces[b.msub][b.i].moment,
                                CrossByHand(b.com_B_G, VScale(Real(b.m), g)))
               /\ forces'.pe = RAdd(forces.pe, EnergyOf(Bodies, g, z))
               /\ forces'.mobilityForces = forces.mobilityForces]_vars

\* The example: with g = (0, -9.8, 0) and zero height 0 a Dynamics pass and
\* one more realizeDynamics call of the gravity field have left twice
\* (0, -19.6, 0) on the body of mass 2 at height 5 of matter subsystem 1,
\* whose share of the energy is -98 each time (of -176.4 for all bodies),
\* the spring's energy 50 counted once.
C12_ExampleRealized ==
    /\ last = [op |-> "realizeDynamics", elt |-> "gravity", outcome |-> "ok",
               kinRead |-> TRUE]
    /\ state.stage = Dynamics
    /\ GravityGetParameters(World) =
          [gravity |-> <<Real(0), <<-49, 5>>, Real(0)>>, zeroHeight |-> Real(0),
           enabled |-> TRUE]
    /\ forces.rigidBodyForces[1][0].force = <<Real(0), <<-196, 5>>, Real(0)>>
    /\ forces.rigidBodyForces[1][0].moment = ZeroVec3
    /\ EnergyOf({b \in Bodies : b.msub = 1}, <<Real(0), <<-49, 5>>, Real(0)>>, Real(0))
          = Real(-98)
    /\ forces.pe = RAdd(Real(50), <<-1764, 5>>)

\* ----------------------------------------------------------- the zero height

\* The height of body b's centre of mass, measured upward (against g):
\* -(g.com_G)/|g|.
Height(b, g) ==
    RDiv(RNeg(VDot(g, b.com_G)), GravityLength(g))

\* C13 as stated: for every gravity vector other than zero and every zero
\* height, a realizeDynamics call of the enabled gravity field adds to the
\* potential energy what the bodies whose centre of mass is not at the zero
\* height add; a body whose centre of mass is at the zero height adds
\* nothing.
C13_BodyAtZeroHeightAddsNoEnergy ==
    [][(Called("gravity", Dynamics) /\ state.stage >= Moving
          /\ GravityGetParameters(World).enabled
          /\ GravityGetParameters(World).gravity # ZeroVec3)
        => LET g == GravityGetParameters(World).gravity
               z == GravityGetParameters(World).zeroHeight
           IN  forces'.pe =
                  RAdd(forces.pe, EnergyOf({b \in Bodies : Height(b, g) # z}, g, z))]_vars

\* With g = (0, -9.8, 0) and zero height 5 a Dynamics pass has run: the body
\* of mass 2 of matter subsystem 1, at height 5, has its share -196 in the
\* energy 50 - 421.4 of the spring and all bodies.
C13_BodyAtZeroHeightRealized ==
    /\ last = [op |-> "realize", elt |-> "system", outcome |-> "ok", kinRead |-> TRUE]
    /\ state.stage = Dynamics
    /\ GravityGetParameters(World) =
          [gravity |-> <<Real(0), <<-49, 5>>, Real(0)>>, zeroHeight |-> Real(5),
           enabled |-> TRUE]
    /\ Height([msub |-> 1, i |-> 0, m |-> 2, com_B_G |-> Vec3(0, 0, 0),
               com_G |-> Vec3(0, 5, 0)], GravityGetParameters(World).gravity) = Real(5)
    /\ GravityBodyPe(GravityGetParameters(World).gravity, Real(49), 1, 1, Real(0))
          = Real(-196)
    /\ forces.pe = RAdd(Real(50), <<-2107, 5>>)

\* ------------------------------------------------- the gravity direction

\* g/|g| for each gravity vector tried, worked out by hand, and the z axis
\* for the zero vector.
GravityUnit(g) ==
    CASE g = ZeroVec3       -> Vec3(0, 0, 1)
      [] g = Vec3(3, -4, 0) -> <<<<3, 5>>, <<-4, 5>>, Real(0)>>
      [] OTHER              -> Vec3(0, -1, 0)

\* The step is a realizeParameters of the gravity field that returned,
\* called directly or by the system.
GravityParametersRealized ==
    \/ Called("gravity", Parametrized) /\ last'.outcome = "ok"
    \/ last'.op = "realize" /\ last'.outcome = "ok" /\ state'.stage = Parametrized

\* C14: after realizeParameters of the gravity field the cached magnitude
\* is |g| and the cached direction is g/|g|, a vector of length 1, when g is
\* not zero; when g is zero the cached magnitude is 0 and the cached
\* direction is (0, 0, 1) (lengths taken exactly, rounding apart).
C14_MagnitudeAndUnitDirection ==
    [][GravityParametersRealized
        => LET g  == getDiscreteVariable(state', "gravity", gravity'.parameterVarsIndex).gravity
               pc == getCacheEntry(state', "gravity", gravity'.parameterCacheIndex)
           IN  /\ pc.gMagnitude = GravityLength(g)
               /\ pc.gDirection = GravityUnit(g)
               /\ VDot(pc.gDirection, pc.gDirection) = Real(1)
               /\ g = ZeroVec3 => (pc.gMagnitude = Real(0) /\ pc.gDirection = Vec3(0, 0, 1))
               /\ g # ZeroVec3 => VScale(pc.gMagnitude, pc.gDirection) = g]_vars

\* realizeParameters of the gravity field has been called on a State
\* realized through Modeled with the gravity vector zero: magnitude 0,
\* direction (0, 0, 1).
C14_ZeroGravityRealized ==
    /\ last = [op |-> "realizeParameters", elt |-> "gravity", outcome |-> "ok",
               kinRead |-> FALSE]
    /\ state.stage = Modeled
    /\ GravityGetParameters(World).gravity = ZeroVec3
    /\ GravityGetParameterCache(World) =
          [gDirection |-> Vec3(0, 0, 1), gMagnitude |-> Real(0)]

\* ------------------------------------------------- the accumulators' life

\* The step is a call of a realize hook made on a subsystem directly.
DirectCall ==
    \E e \in Elements : \E g \in Stages : Called(e, g)

\* C15 as stated: once the system's Dynamics pass has run (the realized
\* stage is Dynamics or Reaction) no call of a hook of the spring, the
\* gravity field or the empty subsystem, a repeated realizeDynamics
\* included, changes any accumulator buffer.
C15_AccumulatorsFrozenAfterPass ==
    [][(DirectCall /\ state.stage >= Dynamics) => forces' = forces]_vars

\* realizeDynamics of the gravity field has been called once more on a
\* State realized through Reaction: the particle of mass 1 carries twice
\* its weight (3, -4, 0) and the body of mass 2 twice its weight too.
C15_GravityCountedTwice ==
    /\ last = [op |-> "realizeDynamics", elt |-> "gravity", outcome |-> "ok",
               kinRead |-> TRUE]
    /\ state.stage = Reaction
    /\ pass = 1
    /\ forces.particleForces[1][0] = Vec3(6, -8, 0)
    /\ forces.rigidBodyForces[1][0].force = Vec3(12, -16, 0)

\* ------------------------------------------------------------ frame effects

\* The variables and cache entries of the subsystems other than e are in
\* State t what they are in State s.
OthersSlotsSame(e, s, t) ==
    \A o \in Elements \ {e} :
        /\ t.dvars[o] = s.dvars[o]
        /\ t.cache[o] = s.cache[o]

\* C16: every call of realizeConstruction, realizeModeling,
\* realizeParameters, realizeTime, realizeConfiguration, realizeMotion or
\* realizeReaction of the spring, the gravity field or the empty subsystem,
\* in a state of any stage and whether it returns or throws, leaves the
\* body, particle and mobility forces and the potential energy as they are,
\* and changes nothing but the subsystem itself and its own slots: not the
\* realized stage, not the other subsystems, not their variables or cache
\* entries; and after realizeConstruction not the subsystem's own variables
\* either.
C16_OnlyRealizeDynamicsWritesShared ==
    [][\A e \in Elements : \A g \in (Built..Reaction) \ {Dynamics} :
          Called(e, g) =>
             /\ forces' = forces
             /\ state'.stage = state.stage
             /\ OthersSlotsSame(e, state, state')
             /\ e # "spring" => spring' = spring
             /\ e # "gravity" => gravity' = gravity
             /\ g # Built => (state'.dvars = state.dvars /\ spring' = spring
                                /\ gravity' = gravity)]_vars

\* realizeConfiguration of the spring has been called again on a State
\* realized through Dynamics: the accumulators hold what the pass left
\* (energy 50 - 60, 100 along x on body 0) and the stage is Dynamics.
C16_ConfigurationCalledAfterPass ==
    /\ last = [op |-> "realizeConfiguration", elt |-> "spring", outcome |-> "ok",
               kinRead |-> TRUE]
    /\ state.stage = Dynamics
    /\ pass = 0
    /\ SpringGetConfigurationCache(World).pe = Real(50)
    /\ forces.pe = Real(50 - 60)
    /\ forces.rigidBodyForces[0][0].force = Vec3(100, 0, 0)

\* ------------------------------------------------------------ cache writes

\* The cache entries of State s whose value in State t is another: pairs of
\* subsystem and position.
Rewritten(s, t) ==
    {c \in Elements \X (1..(2 * MaxConstructions)) :
        /\ c[2] <= Len(s.cache[c[1]])
        /\ t.cache[c[1]][c[2]].value # s.cache[c[1]][c[2]].value}

\* C17: a call of a hook changes no cache entry but one of the subsystem
\* called whose stage is the hook's: the spring's Configured entry changes
\* only in its realizeConfiguration, its Dynamics entry only in its
\* realizeDynamics, the gravity field's Parametrized entry only in its
\* realizeParameters; what the system's realization of a stage changes is
\* tagged with that stage; and a hook that returned has filled in the entry
\* of its stage that the subsystem's handle names.
C17_CacheWrittenByOwnHookOnly ==
    [][/\ \A e \in Elements : \A g \in Built..Reaction :
             Called(e, g) =>
                \A c \in Rewritten(state, state') :
                    c[1] = e /\ state.cache[e][c[2]].stage = g
       /\ last'.op = "realize" =>
             \A c \in Rewritten(state, state') :
                 state.cache[c[1]][c[2]].stage = state.stage + 1
       /\ Ran("spring", Configured) =>
             ~IsNaN(ConfigurationCacheIn(spring', state').pe)
       /\ (Ran("spring", Dynamics) /\ Separation(spring).x # Real(0)) =>
             DynamicsCacheIn(spring', state') # NewDynamicsCache
       /\ Ran("gravity", Parametrized) =>
             ~IsNaN(GravityGetParameterCache(World)'.gMagnitude)]_vars

\* realizeDynamics of the spring has been called on a State realized
\* through Moving only: its Dynamics entry is filled in (100 along x), its
\* Configured entry is as realizeConfiguration left it, nothing was read
\* from the accumulators' pass (none has run).
C17_DynamicsEntryWritten ==
    /\ last = [op |-> "realizeDynamics", elt |-> "spring", outcome |-> "ok",
               kinRead |-> TRUE]
    /\ state.stage = Moving
    /\ SpringGetDynamicsCache(World).f1_G = Vec3(100, 0, 0)
    /\ SpringGetConfigurationCache(World).pe = Real(50)
    /\ GravityGetParameterCache(World).gMagnitude = Real(5)

\* --------------------------------------------------------------- allocation

\* The slot handles of both subsystems and the number of variables and of
\* cache entries each owns in State s.
Handles(sp, gr, s) ==
    [spring  |-> <<sp.parameterVarsIndex, sp.configurationCacheIndex,
                   sp.dynamicsCacheIndex, Len(s.dvars["spring"]), Len(s.cache["spring"])>>,
     gravity |-> <<gr.parameterVarsIndex, gr.parameterCacheIndex,
                   Len(s.dvars["gravity"]), Len(s.cache["gravity"])>>]

\* C18 as stated: once realizeConstruction has run for the spring, or for
\* the gravity field, no operation changes that subsystem's slot handles or
\* the number of slots it owns in the State.
C18_HandlesFixedOnceBuilt ==
    [][/\ spring.built =>
             Handles(spring', gravity', state').spring = Handles(spring, gravity, state).spring
       /\ gravity.built =>
             Handles(spring', gravity', state').gravity
                = Handles(spring, gravity, state).gravity]_vars

\* realizeConstruction of the spring has run a second time on the State:
\* the spring owns two variables and four cache entries, and its handles
\* name the later ones.
C18_SpringConstructedTwice ==
    /\ last = [op |-> "realizeConstruction", elt |-> "spring", outcome |-> "ok",
               kinRead |-> FALSE]
    /\ spring.built
    /\ Handles(spring, gravity, state).spring = <<1, 2, 3, 2, 4>>

\* -------------------------------------------------- the spring's footprint

\* The sum of the linear forces of the body slots of matter subsystem 0.
RECURSIVE LinearSum(_, _)
LinearSum(rigidBodyForces, n) ==
    IF n = 0 THEN ZeroVec3
    ELSE VAdd(LinearSum(rigidBodyForces, n - 1), rigidBodyForces[n - 1].force)

\* C19: a realizeDynamics call of the spring that returns leaves every body
\* slot but those of body1 and body2 of matter subsystem 0, and every
\* particle slot, as it is, and the mobility forces too when the damping is
\* zero; when the stations are apart (x > 0) the sum of the linear forces
\* over the body slots is what it was (sums taken exactly, rounding apart),
\* and when body1 and body2 are one body that body's linear force is what
\* it was; with two bodies, a stiffness other than zero and a separation
\* other than the natural length, body1's linear force is changed.
C19_SpringTouchesItsTwoBodiesOnly ==
    [][(Called("spring", Dynamics) /\ last'.outcome = "ok")
        => /\ \A msub \in DOMAIN forces.rigidBodyForces :
                 \A b \in DOMAIN forces.rigidBodyForces[msub] :
                     (msub # 0 \/ b \notin {spring.body1, spring.body2})
                        => forces'.rigidBodyForces[msub][b] = forces.rigidBodyForces[msub][b]
           /\ forces'.particleForces = forces.particleForces
           /\ ParametersIn(spring, state).damping = Real(0)
                 => forces'.mobilityForces = forces.mobilityForces
           /\ Separation(spring).x # Real(0)
                 => /\ LinearSum(forces'.rigidBodyForces[0], 3)
                          = LinearSum(forces.rigidBodyForces[0], 3)
                    /\ spring.body1 = spring.body2
                          => forces'.rigidBodyForces[0][spring.body1].force
                               = forces.rigidBodyForces[0][spring.body1].force
                    /\ (spring.body1 # spring.body2
                          /\ ParametersIn(spring, state).stiffness # Real(0)
                          /\ ParametersIn(spring, state).naturalLength # Separation(spring).x)
                          => forces'.rigidBodyForces[0][spring.body1].force
                               # forces.rigidBodyForces[0][spring.body1].force]_vars

\* realizeDynamics of the spring between two stations of body 1 (2 apart,
\* k = 100, x0 = 1) has been called after a Dynamics pass: body 1 carries
\* its weight (6, -8, 0) alone, and the moment of the spring's two forces,
\* which do not act along one line through its origin.
C19_OneBodySpringRealized ==
    /\ last = [op |-> "realizeDynamics", elt |-> "spring", outcome |-> "ok",
               kinRead |-> TRUE]
    /\ state.stage = Dynamics
    /\ pass = 1
    /\ spring.body1 = 1 /\ spring.body2 = 1
    /\ SpringGetDynamicsCache(World).f1_G = Vec3(0, 100, 0)
    /\ forces.rigidBodyForces[0][1].force = Vec3(6, -8, 0)
    /\ forces.pe = Real(50 + 50 - 60)

\* ------------------------------------------------- the sign of the energy

\* The number a is finite and not below zero.
NonNegative(a) ==
    IsFinite(a) /\ a[1] >= 0

\* C20: in every state realized through Configured or further the spring's
\* stiffness and natural length are not negative and its cached potential
\* energy is not negative, whatever the separation (zero included) and
\* whether the spring is stretched or compressed; and a realizeDynamics call
\* of the spring that returns does not lower the potential energy of the
\* accumulators.
C20_SpringEnergyNotNegative ==
    [][/\ (spring'.built /\ state'.stage >= Configured)
            => /\ NonNegative(ParametersIn(spring', state').stiffness)
               /\ NonNegative(ParametersIn(spring', state').naturalLength)
               /\ NonNegative(ConfigurationCacheIn(spring', state').pe)
       /\ (Called("spring", Dynamics) /\ last'.outcome = "ok")
            => /\ NonNegative(ConfigurationCacheIn(spring, state).pe)
               /\ NonNegative(RSub(forces'.pe, forces.pe))]_vars

\* The spring with coincident stations, k = 100 and natural length 2 is
\* compressed (fscalar -200) and its realizeDynamics has added its energy
\* 200 to the -60 of gravity.
C20_CompressedSpringRealized ==
    /\ last = [op |-> "realizeDynamics", elt |-> "spring", outcome |-> "ok",
               kinRead |-> TRUE]
    /\ state.stage = Moving
    /\ SpringGetParameters(World).naturalLength = Real(2)
    /\ SpringGetConfigurationCache(World).x = Real(0)
    /\ SpringGetConfigurationCache(World).fscalar = Real(-200)
    /\ SpringGetConfigurationCache(World).pe = Real(200)
    /\ forces.pe = Real(200 - 60)

=============================================================================
